---- MODULE Spec2Model ----
(***************************************************************************)
(* Data Operations Dashboard (migrations/tools/data-ops-dashboard.py).     *)
(*                                                                         *)
(* The model covers the permission gate, MigrationService.add_approval,    *)
(* MigrationService.execute_migration, get_pending_migrations and          *)
(* get_migration_status, together with the approve / execute routes that   *)
(* wrap them.  Requests run in slots; a slot holds one in-flight request   *)
(* and its position (pc).  Strings that the code inspects character by     *)
(* character (file names, versions) are sequences of ASCII codes.          *)
(***************************************************************************)
EXTENDS Integers, Sequences, FiniteSets, TLC

VARIABLES catalog, history, approvals, req, clock

vars == <<catalog, history, approvals, req, clock>>

(***************************************************************************)
(* Bounds of the model.                                                    *)
(***************************************************************************)
NumSlots == 2
MaxClock == 2

Slots == 1..NumSlots

(***************************************************************************)
(* File names of the scripts directory, as ASCII codes:                    *)
(*   "1.sql", "10.sql", "2.sql", "3.txt".                                  *)
(***************************************************************************)
File1 == <<49, 46, 115, 113, 108>>
File10 == <<49, 48, 46, 115, 113, 108>>
File2 == <<50, 46, 115, 113, 108>>
FileTxt == <<51, 46, 116, 120, 116>>

AllFiles == {File1, File10, File2, FileTxt}

\* the '.sql' suffix tested by filename.endswith('.sql')
SqlSuffix == <<46, 115, 113, 108>>

\* "-- Risk Level:" header of each file; "" when the file has no such line
HeaderRisk(f) ==
    IF f = File2 THEN "HIGH" ELSE IF f = File10 THEN "MEDIUM" ELSE ""

Environments == {"staging", "production"}

Statuses == {"PENDING_APPROVAL", "APPLIED", "ROLLED_BACK", "FAILED"}

(***************************************************************************)
(* USERS and the permission decorator.                                     *)
(***************************************************************************)
Actors == {"anonymous", "admin", "data_ops_lead", "developer"}

\* a user table whose admin may also approve
USERS_AdminApproves ==
    [u \in {"admin", "data_ops_lead", "developer"} |->
        IF u = "admin"
        THEN [role |-> "data_ops_admin",
              permissions |-> {"approve_all", "approve_high_risk",
                               "manage_locks", "view_all", "emergency_deploy"}]
        ELSE IF u = "data_ops_lead"
        THEN [role |-> "data_ops_lead",
              permissions |-> {"approve_high_risk", "manage_locks", "view_all"}]
        ELSE [role |-> "developer",
              permissions |-> {"create_migrations", "view_own"}]]

USERS ==
    [u \in {"admin", "data_ops_lead", "developer"} |->
        IF u = "admin"
        THEN [role |-> "data_ops_admin",
              permissions |-> {"approve_all", "manage_locks", "view_all",
                               "emergency_deploy"}]
        ELSE IF u = "data_ops_lead"
        THEN [role |-> "data_ops_lead",
              permissions |-> {"approve_high_risk", "manage_locks", "view_all"}]
        ELSE [role |-> "developer",
              permissions |-> {"create_migrations", "view_own"}]]

is_authenticated(actor) == actor \in DOMAIN USERS

Roles == {USERS[u].role : u \in DOMAIN USERS}

\* requires_permission with the authentication check only
requires_permission_NoCheck(actor, permission) ==
    IF ~ is_authenticated(actor) THEN "login_redirect" ELSE "pass"

\* outcome of the decorator chain login_required / requires_permission
requires_permission(actor, permission) ==
    IF ~ is_authenticated(actor) THEN "login_redirect"
    ELSE IF permission \notin USERS[actor].permissions THEN "permission_denied"
    ELSE "pass"

(***************************************************************************)
(* Strings as sequences.                                                   *)
(***************************************************************************)
endswith(s, suffix) ==
    /\ Len(s) >= Len(suffix)
    /\ SubSeq(s, Len(s) - Len(suffix) + 1, Len(s)) = suffix

\* filename[:-4]
StripExt(filename) == SubSeq(filename, 1, Len(filename) - 4)

Min2(a, b) == IF a < b THEN a ELSE b

\* Python's str ordering: first differing character decides, a proper
\* prefix is smaller
StrLess(a, b) ==
    \/ \E i \in 1..Min2(Len(a), Len(b)) :
          /\ \A j \in 1..(i - 1) : a[j] = b[j]
          /\ a[i] < b[i]
    \/ /\ Len(a) < Len(b)
       /\ \A j \in 1..Len(a) : a[j] = b[j]

SqlVersions == {StripExt(f) : f \in {g \in AllFiles : endswith(g, SqlSuffix)}}

(***************************************************************************)
(* Migration catalog: sorted(os.listdir(MIGRATIONS_DIR)) and the metadata  *)
(* header of each file.                                                    *)
(***************************************************************************)
RECURSIVE sorted(_)
sorted(S) ==
    IF S = {} THEN <<>>
    ELSE LET m == CHOOSE x \in S : \A y \in S \ {x} : StrLess(x, y)
         IN  <<m>> \o sorted(S \ {m})

\* the metadata dict: only the keys whose header line is present
get_migration_metadata(f) ==
    IF HeaderRisk(f) = "" THEN <<>> ELSE ("risk_level" :> HeaderRisk(f))

\* dict.get(key, default)
DictGet(d, key, default) == IF key \in DOMAIN d THEN d[key] ELSE default

PendingEntry(filename) ==
    [version |-> StripExt(filename),
     filename |-> filename,
     risk_level |-> DictGet(get_migration_metadata(filename), "risk_level", "LOW")]

\* the loop over the sorted listing with every .sql file kept
RECURSIVE ListPending_IgnoreApplied(_, _)
ListPending_IgnoreApplied(files, applied_migrations) ==
    IF files = <<>> THEN <<>>
    ELSE LET filename == Head(files)
             rest == ListPending_IgnoreApplied(Tail(files), applied_migrations)
         IN  IF endswith(filename, SqlSuffix)
             THEN <<PendingEntry(filename)>> \o rest
             ELSE rest

\* the loop over the sorted listing (lines 234-250)
RECURSIVE ListPending(_, _)
ListPending(files, applied_migrations) ==
    IF files = <<>> THEN <<>>
    ELSE LET filename == Head(files)
             rest == ListPending(Tail(files), applied_migrations)
         IN  IF /\ endswith(filename, SqlSuffix)
                /\ StripExt(filename) \notin applied_migrations
             THEN <<PendingEntry(filename)>> \o rest
             ELSE rest

(***************************************************************************)
(* History store queries.                                                  *)
(***************************************************************************)
\* SELECT version FROM migration_history WHERE status = 'APPLIED'
AppliedVersions(env) == {v \in SqlVersions : history[env][v] = "APPLIED"}

CountStatus(env, status) ==
    Cardinality({v \in SqlVersions : history[env][v] = status})

\* the summary part of get_migration_status
StatusSummary(env) ==
    [total |-> Cardinality({v \in SqlVersions : history[env][v] # "NONE"}),
     applied |-> CountStatus(env, "APPLIED"),
     rolled_back |-> CountStatus(env, "ROLLED_BACK"),
     failed |-> CountStatus(env, "FAILED")]

(***************************************************************************)
(* Approval rows of one environment.                                       *)
(***************************************************************************)
ApprovalRow(version, role, name, ts, comments) ==
    [migration_version |-> version, approver_role |-> role,
     approver_name |-> name, approved_at |-> ts, comments |-> comments]

SameKey(a, b) ==
    /\ a.migration_version = b.migration_version
    /\ a.approver_role = b.approver_role

\* a plain INSERT without the ON CONFLICT clause
Upsert_InsertOnly(rows, row) == rows \cup {row}

\* INSERT ... ON CONFLICT (migration_version, approver_role) DO UPDATE
Upsert(rows, row) == {x \in rows : ~ SameKey(x, row)} \cup {row}

ApprovalCount(env, version) ==
    Cardinality({a \in approvals[env] : a.migration_version = version})

(***************************************************************************)
(* Requests.  A slot is free when its pc is "idle" or "done"; a new        *)
(* request overwrites it.  via is "route" for a request through the Flask  *)
(* route (decorators, flash, notification) and "service" for a direct call *)
(* of the MigrationService method.  A request's locals live until it       *)
(* returns; the "done" record keeps what the caller gets back.             *)
(***************************************************************************)
Comments == {"ok", "again"}
ServiceNames == {"alice"}

NoVersion == <<>>

\* the value of a status result nobody has computed (None)
NoStatus ==
    [available |-> FALSE,
     summary |-> [total |-> 0, applied |-> 0, rolled_back |-> 0, failed |-> 0],
     pending_approvals |-> {}]

\* the store a connection of get_db_connection(environment) talks to, when
\* every environment is looked up as the first one
ConnectedStore_Default(environment) == "staging"

\* the store a connection of get_db_connection(environment) talks to:
\* config.get(environment) gives each environment its own host / database
ConnectedStore(environment) == environment

\* a finally block that leaves the connection open
close_Leak(q) == q

\* finally: conn.close()
close(q) == [q EXCEPT !.conn = FALSE]

IdleReq ==
    [op |-> "idle", via |-> "none", actor |-> "anonymous", env |-> "none",
     version |-> NoVersion, force |-> FALSE,
     role |-> "none", name |-> "none", comments |-> "none",
     pc |-> "idle", conn |-> FALSE, fault |-> "none", ts |-> 0,
     result |-> "none", error |-> "none", cmd |-> <<>>,
     notified |-> FALSE, applied_before |-> 0,
     applied_migrations |-> {}, pending |-> <<>>,
     status |-> NoStatus]

Free(r) == req[r].pc \in {"idle", "done"}

\* the request as it has returned to its caller
Returned(q, result, fault, error, notified) ==
    [IdleReq EXCEPT !.op = q.op, !.via = q.via, !.actor = q.actor,
                    !.env = q.env, !.pc = "done", !.conn = q.conn,
                    !.result = result,
                    !.fault = fault, !.error = error, !.notified = notified]

\* a service method returns: to the route that called it, or to the caller
ServiceReturn(q, result, fault, error, respond) ==
    IF q.via = "route"
    THEN [q EXCEPT !.result = result, !.fault = fault, !.error = error,
                   !.ts = 0, !.pc = respond]
    ELSE Returned(q, result, fault, error, FALSE)

\* the permission a route is decorated with
RoutePermission(op) ==
    IF op = "approve" THEN "approve_high_risk" ELSE "approve_all"

\* the service method a route calls
RouteBody(op) ==
    IF op = "approve" THEN "add_approval" ELSE "execute_migration"

(***************************************************************************)
(* approve_migration / execute_migration routes: the request and the       *)
(* decorators in front of the route body.                                  *)
(***************************************************************************)
ApproveRoute(r, actor, version, comments, env) ==
    /\ Free(r)
    /\ req' = [req EXCEPT ![r] =
            [IdleReq EXCEPT !.op = "approve", !.via = "route",
                            !.actor = actor, !.env = env,
                            !.version = version, !.comments = comments,
                            !.pc = "gate"]]
    /\ UNCHANGED <<catalog, history, approvals, clock>>

ExecuteRoute(r, actor, version, env, force) ==
    /\ Free(r)
    /\ req' = [req EXCEPT ![r] =
            [IdleReq EXCEPT !.op = "execute", !.via = "route",
                            !.actor = actor, !.env = env,
                            !.version = version, !.force = force,
                            !.applied_before = StatusSummary(env).applied,
                            !.pc = "gate"]]
    /\ UNCHANGED <<catalog, history, approvals, clock>>

\* @login_required, @requires_permission(...): redirect, or enter the body
\* (the approve body passes current_user.role and current_user.username)
RouteGate(r) ==
    /\ req[r].pc = "gate"
    /\ LET q == req[r]
           gate == requires_permission(q.actor, RoutePermission(q.op))
       IN  req' = [req EXCEPT ![r] =
                IF gate # "pass"
                THEN Returned(q, gate, "none", "none", FALSE)
                ELSE IF q.op = "approve"
                THEN [q EXCEPT !.role = USERS[q.actor].role,
                               !.name = q.actor,
                               !.pc = RouteBody(q.op)]
                ELSE [q EXCEPT !.pc = RouteBody(q.op)]]
    /\ UNCHANGED <<catalog, history, approvals, clock>>

(***************************************************************************)
(* MigrationService.add_approval.                                          *)
(***************************************************************************)
AddApprovalCall(r, version, role, name, comments, env) ==
    /\ Free(r)
    /\ req' = [req EXCEPT ![r] =
            [IdleReq EXCEPT !.op = "approve", !.via = "service",
                            !.env = env, !.version = version,
                            !.role = role, !.name = name,
                            !.comments = comments, !.pc = "add_approval"]]
    /\ UNCHANGED <<catalog, history, approvals, clock>>

\* conn = get_db_connection(environment); if not conn: return False
AddApprovalConnect(r, ok) ==
    /\ req[r].pc = "add_approval"
    /\ req' = [req EXCEPT ![r] =
            IF ok
            THEN [@ EXCEPT !.conn = TRUE, !.pc = "aa_execute"]
            ELSE ServiceReturn(req[r], "false", "unreachable", "none",
                               "approve_respond")]
    /\ UNCHANGED <<catalog, history, approvals, clock>>

\* the row of the request's open transaction
TxnRow(q) ==
    ApprovalRow(q.version, q.role, q.name, q.ts, q.comments)

\* another open transaction holds the row lock of the same key
RowLocked(r) ==
    \E o \in Slots \ {r} :
        /\ req[o].pc = "aa_commit"
        /\ req[o].env = req[r].env
        /\ req[o].version = req[r].version
        /\ req[o].role = req[r].role

\* cursor.execute(INSERT ... ON CONFLICT ...): the statement runs inside the
\* connection's transaction and waits for the row lock of its key;
\* an exception goes to except / finally and returns False
AddApprovalExecute(r, ok) ==
    /\ req[r].pc = "aa_execute"
    /\ IF ok
       THEN /\ clock < MaxClock
            /\ ~ RowLocked(r)
            /\ clock' = clock + 1
            /\ req' = [req EXCEPT ![r] =
                    [@ EXCEPT !.ts = clock + 1, !.pc = "aa_commit"]]
       ELSE /\ clock' = clock
            /\ req' = [req EXCEPT ![r] =
                    ServiceReturn(close(req[r]), "false", "execute_error", "none",
                                  "approve_respond")]
    /\ UNCHANGED <<catalog, history, approvals>>

\* the store contents when a failed commit keeps the row
CommitEffect_Partial(rows, row, ok) == Upsert(rows, row)

\* the store contents after conn.commit(): the row when it succeeds, the
\* old contents when it raises (close discards the transaction)
CommitEffect(rows, row, ok) == IF ok THEN Upsert(rows, row) ELSE rows

\* conn.commit(); return True  /  except: return False  /  finally: close
AddApprovalCommit(r, ok) ==
    /\ req[r].pc = "aa_commit"
    /\ approvals' = [approvals EXCEPT ![ConnectedStore(req[r].env)] =
                        CommitEffect(@, TxnRow(req[r]), ok)]
    /\ req' = [req EXCEPT ![r] =
            IF ok
            THEN ServiceReturn(close(req[r]), "true", "none", "none",
                               "approve_respond")
            ELSE ServiceReturn(close(req[r]), "false", "commit_error", "none",
                               "approve_respond")]
    /\ UNCHANGED <<catalog, history, clock>>

\* the notification sent whatever add_approval returned
ApproveNotifies_Always(success) == TRUE

\* if success: flash; send_slack_notification(...)  else: flash
ApproveNotifies(success) == success = "true"

ApproveRespond(r) ==
    /\ req[r].pc = "approve_respond"
    /\ req' = [req EXCEPT ![r] =
            Returned(req[r], req[r].result, req[r].fault, req[r].error,
                     ApproveNotifies(req[r].result))]
    /\ UNCHANGED <<catalog, history, approvals, clock>>

(***************************************************************************)
(* MigrationService.execute_migration.                                     *)
(***************************************************************************)
ExecuteCall(r, version, env, force) ==
    /\ Free(r)
    /\ req' = [req EXCEPT ![r] =
            [IdleReq EXCEPT !.op = "execute", !.via = "service",
                            !.env = env, !.version = version,
                            !.force = force,
                            !.applied_before = StatusSummary(env).applied,
                            !.pc = "execute_migration"]]
    /\ UNCHANGED <<catalog, history, approvals, clock>>

\* a command that also names the version to migrate to
RunnerCommand_WithVersion(version, env, force) ==
    <<"migrate.sh", "migrate", env>> \o (IF force THEN <<"--force">> ELSE <<>>)
        \o <<version>>

\* cmd = [migrate_script, 'migrate', environment] (+ '--force')
RunnerCommand(version, env, force) ==
    <<"migrate.sh", "migrate", env>> \o (IF force THEN <<"--force">> ELSE <<>>)

\* a runner of the same version and environment is between start and finish
RunnerBusy(r) ==
    \E o \in Slots \ {r} :
        /\ req[o].pc = "running"
        /\ req[o].env = req[r].env
        /\ req[o].version = req[r].version

\* the launch under a per-(version, environment) lock
ExecuteLaunch_Locked(r, ok) ==
    /\ req[r].pc = "execute_migration"
    /\ ok => ~ RunnerBusy(r)
    /\ req' = [req EXCEPT ![r] =
            IF ok
            THEN [@ EXCEPT !.cmd = RunnerCommand(req[r].version, req[r].env,
                                                 req[r].force),
                           !.pc = "running"]
            ELSE ServiceReturn(req[r], "failure", "launch_error",
                               "launch_error", "execute_respond")]
    /\ UNCHANGED <<catalog, history, approvals, clock>>

\* subprocess.run(cmd, ...) starts the runner, or raises before it started
\* (except Exception: success False, error str(e))
ExecuteLaunch(r, ok) ==
    /\ req[r].pc = "execute_migration"
    /\ req' = [req EXCEPT ![r] =
            IF ok
            THEN [@ EXCEPT !.cmd = RunnerCommand(req[r].version, req[r].env,
                                                 req[r].force),
                           !.pc = "running"]
            ELSE ServiceReturn(req[r], "failure", "launch_error",
                               "launch_error", "execute_respond")]
    /\ UNCHANGED <<catalog, history, approvals, clock>>

RunnerOutcomes == {"exit_0", "exit_nonzero", "timeout"}

\* the result dict of execute_migration for an outcome of the runner
ExecuteResult(outcome) ==
    IF outcome = "exit_0" THEN [success |-> "success", error |-> "stderr"]
    ELSE IF outcome = "exit_nonzero"
    THEN [success |-> "failure", error |-> "stderr"]
    ELSE [success |-> "failure",
          error |-> "Migration timed out after 5 minutes"]

\* subprocess.run returns, or raises TimeoutExpired after 300 seconds; the
\* method returns the result dict and writes nothing to the store
ExecuteFinish(r, outcome) ==
    /\ req[r].pc = "running"
    /\ req' = [req EXCEPT ![r] =
            IF req[r].via = "route"
            THEN [@ EXCEPT !.fault = outcome,
                           !.result = ExecuteResult(outcome).success,
                           !.error = ExecuteResult(outcome).error,
                           !.pc = "execute_respond"]
            ELSE Returned(req[r], ExecuteResult(outcome).success, outcome,
                          ExecuteResult(outcome).error, FALSE)]
    /\ UNCHANGED <<catalog, history, approvals, clock>>

\* if result['success']: flash; send_slack_notification(...)  else: flash
ExecuteRespond(r) ==
    /\ req[r].pc = "execute_respond"
    /\ req' = [req EXCEPT ![r] =
            Returned(req[r], req[r].result, req[r].fault, req[r].error,
                     req[r].result = "success")]
    /\ UNCHANGED <<catalog, history, approvals, clock>>

(***************************************************************************)
(* MigrationService.get_pending_migrations.                                *)
(***************************************************************************)
GetPendingCall(r, env) ==
    /\ Free(r)
    /\ req' = [req EXCEPT ![r] =
            [IdleReq EXCEPT !.op = "pending", !.via = "service",
                            !.env = env, !.pc = "get_pending"]]
    /\ UNCHANGED <<catalog, history, approvals, clock>>

\* a connect step that gives up with an empty list when there is no
\* connection
GetPendingConnect_Abort(r, ok) ==
    /\ req[r].pc = "get_pending"
    /\ req' = [req EXCEPT ![r] =
            IF ok
            THEN [@ EXCEPT !.conn = TRUE, !.pc = "gp_query"]
            ELSE Returned(req[r], "listed", "unreachable", "none", FALSE)]
    /\ UNCHANGED <<catalog, history, approvals, clock>>

\* conn = get_db_connection(environment); if conn: ...
GetPendingConnect(r, ok) ==
    /\ req[r].pc = "get_pending"
    /\ req' = [req EXCEPT ![r] =
            IF ok
            THEN [@ EXCEPT !.conn = TRUE, !.pc = "gp_query"]
            ELSE [@ EXCEPT !.fault = "unreachable", !.pc = "gp_list"]]
    /\ UNCHANGED <<catalog, history, approvals, clock>>

\* applied_migrations = {row[0] for row in cursor.fetchall()}; an exception
\* leaves the empty set; finally: conn.close()
GetPendingQuery(r, ok) ==
    /\ req[r].pc = "gp_query"
    /\ req' = [req EXCEPT ![r] =
            IF ok
            THEN [close(req[r]) EXCEPT
                     !.applied_migrations =
                         AppliedVersions(ConnectedStore(req[r].env)),
                     !.pc = "gp_list"]
            ELSE [close(req[r]) EXCEPT !.fault = "query_error",
                                       !.pc = "gp_list"]]
    /\ UNCHANGED <<catalog, history, approvals, clock>>

\* for filename in sorted(os.listdir(MIGRATIONS_DIR)): ...
\* return pending_migrations
GetPendingList(r) ==
    /\ req[r].pc = "gp_list"
    /\ req' = [req EXCEPT ![r] =
            [Returned(req[r], "listed", req[r].fault, "none", FALSE)
                EXCEPT !.pending = ListPending(sorted(catalog),
                                               req[r].applied_migrations)]]
    /\ UNCHANGED <<catalog, history, approvals, clock>>

(***************************************************************************)
(* Specifications.  Each one starts from stores the program can hold and   *)
(* submits the requests of one part of the dashboard.                      *)
(***************************************************************************)
VersionLow == StripExt(File1)
VersionMedium == StripExt(File10)
VersionHigh == StripExt(File2)

NoHistory == [v \in SqlVersions |-> "NONE"]

\* a ledger with an applied, a pending and an unseen version
MixedHistory ==
    [v \in SqlVersions |->
        IF v = VersionLow THEN "APPLIED"
        ELSE IF v = VersionHigh THEN "PENDING_APPROVAL" ELSE "NONE"]

InitStores ==
    /\ approvals = [e \in Environments |-> {}]
    /\ req = [r \in Slots |-> IdleReq]
    /\ clock = 0

\* ---- the approval / execution workflow ----
Init ==
    /\ catalog = AllFiles
    /\ history = [e \in Environments |-> MixedHistory]
    /\ InitStores

Next ==
    \/ \E r \in Slots, role \in {"data_ops_admin", "data_ops_lead"} :
          AddApprovalCall(r, VersionHigh, role, "alice", "ok", "staging")
    \/ \E r \in Slots, ok \in BOOLEAN : AddApprovalConnect(r, ok)
    \/ \E r \in Slots, ok \in BOOLEAN : AddApprovalExecute(r, ok)
    \/ \E r \in Slots, ok \in BOOLEAN : AddApprovalCommit(r, ok)
    \/ \E r \in Slots, actor \in {"admin", "developer"},
          version \in {VersionMedium, VersionHigh}, force \in BOOLEAN :
          ExecuteRoute(r, actor, version, "staging", force)
    \/ \E r \in Slots : RouteGate(r)
    \/ \E r \in Slots, ok \in BOOLEAN : ExecuteLaunch(r, ok)
    \/ \E r \in Slots, outcome \in RunnerOutcomes : ExecuteFinish(r, outcome)
    \/ \E r \in Slots : ExecuteRespond(r)

Spec == Init /\ [][Next]_vars

\* ---- the two routes behind the permission decorator ----
NextRoutes ==
    \/ \E r \in Slots, actor \in Actors :
          ApproveRoute(r, actor, VersionHigh, "ok", "staging")
    \/ \E r \in Slots, actor \in Actors, force \in BOOLEAN :
          ExecuteRoute(r, actor, VersionHigh, "staging", force)
    \/ \E r \in Slots : RouteGate(r)
    \/ \E r \in Slots, ok \in BOOLEAN : AddApprovalConnect(r, ok)
    \/ \E r \in Slots, ok \in BOOLEAN : AddApprovalExecute(r, ok)
    \/ \E r \in Slots, ok \in BOOLEAN : AddApprovalCommit(r, ok)
    \/ \E r \in Slots : ApproveRespond(r)
    \/ \E r \in Slots, ok \in BOOLEAN : ExecuteLaunch(r, ok)
    \/ \E r \in Slots, outcome \in RunnerOutcomes : ExecuteFinish(r, outcome)
    \/ \E r \in Slots : ExecuteRespond(r)

SpecRoutes == Init /\ [][NextRoutes]_vars

\* ---- add_approval called with any role ----
NextUpsert ==
    \/ \E r \in Slots, role \in {"data_ops_admin", "data_ops_lead"},
          comments \in Comments, env \in Environments :
          AddApprovalCall(r, VersionHigh, role, "alice", comments, env)
    \/ \E r \in Slots, ok \in BOOLEAN : AddApprovalConnect(r, ok)
    \/ \E r \in Slots, ok \in BOOLEAN : AddApprovalExecute(r, ok)
    \/ \E r \in Slots, ok \in BOOLEAN : AddApprovalCommit(r, ok)

SpecUpsert == Init /\ [][NextUpsert]_vars

\* ---- get_pending_migrations over catalogs and ledgers ----
QueryHistories == [SqlVersions -> {"NONE", "APPLIED", "FAILED"}]

InitQuery ==
    /\ catalog \in SUBSET AllFiles
    /\ history \in {h \in [Environments -> QueryHistories \cup {MixedHistory}] :
                        h["production"] = MixedHistory}
    /\ InitStores

NextQuery ==
    \/ \E r \in Slots : GetPendingCall(r, "staging")
    \/ \E r \in Slots, ok \in BOOLEAN : GetPendingConnect(r, ok)
    \/ \E r \in Slots, ok \in BOOLEAN : GetPendingQuery(r, ok)
    \/ \E r \in Slots : GetPendingList(r)

SpecQuery == InitQuery /\ [][NextQuery]_vars

(***************************************************************************)
(* Vocabulary of the properties.                                           *)
(***************************************************************************)
\* risk level of a catalog version, as get_pending_migrations reports it
RiskOf(version) == PendingEntry(version \o SqlSuffix).risk_level

\* approvals a risk level asks for: HIGH two, MEDIUM one, LOW none
RequiredApprovals(risk) ==
    IF risk = "HIGH" THEN 2 ELSE IF risk = "MEDIUM" THEN 1 ELSE 0

DistinctRoleApprovals(env, version) ==
    Cardinality({a.approver_role :
                    a \in {b \in approvals[env] : b.migration_version = version}})

ApprovalsSufficient(env, version) ==
    DistinctRoleApprovals(env, version) >= RequiredApprovals(RiskOf(version))

hasCapability(actor, capability) ==
    /\ is_authenticated(actor)
    /\ capability \in USERS[actor].permissions

\* slot r takes a step
Steps(r) == req'[r] # req[r]

(***************************************************************************)
(* C1: an execute with force = false on a version whose approvals are      *)
(* insufficient for its risk level never starts the external runner and    *)
(* leaves the history and approval records unchanged.                      *)
(***************************************************************************)
C1_UnapprovedExecuteDoesNothing ==
    [][\A r \in Slots :
          ( /\ req[r].op = "execute"
            /\ req[r].pc \in {"gate", "execute_migration"}
            /\ ~ req[r].force
            /\ ~ ApprovalsSufficient(req[r].env, req[r].version)
            /\ Steps(r) )
          => /\ req'[r].cmd = <<>>
             /\ UNCHANGED <<history, approvals>>]_vars

(***************************************************************************)
(* C3: a request that holds the execute permission enters the execution    *)
(* body exactly when (force is set and the requester holds the override    *)
(* capability) or the distinct-role approvals meet the threshold of the    *)
(* version's risk level; otherwise it is refused with                      *)
(* InsufficientApprovals.                                                  *)
(***************************************************************************)
ExecutionAllowed(q) ==
    \/ q.force /\ hasCapability(q.actor, "emergency_deploy")
    \/ ApprovalsSufficient(q.env, q.version)

C3_AllowedIffApproved ==
    [][\A r \in Slots :
          ( /\ req[r].op = "execute"
            /\ req[r].pc = "gate"
            /\ hasCapability(req[r].actor, "approve_all")
            /\ Steps(r) )
          => /\ (req'[r].pc = "execute_migration") <=> ExecutionAllowed(req[r])
             /\ ~ ExecutionAllowed(req[r])
                   => req'[r].result = "InsufficientApprovals"]_vars

(***************************************************************************)
(* C5: once the runner of an execute call has finished, the history store  *)
(* of that environment holds the record of that version: APPLIED when the  *)
(* exit code was 0, FAILED otherwise.                                      *)
(***************************************************************************)
C5_RunIsRecorded ==
    \A r \in Slots :
        ( /\ req[r].op = "execute"
          /\ req[r].pc = "execute_respond"
          /\ req[r].cmd # <<>> )
        => history[req[r].env][req[r].version] =
              (IF req[r].fault = "exit_0" THEN "APPLIED" ELSE "FAILED")

(***************************************************************************)
(* C6: an execute call whose runner timed out returns a failure result     *)
(* and has left a FAILED record for the version.                           *)
(***************************************************************************)
C6_TimeoutIsFailedRecord ==
    \A r \in Slots :
        ( /\ req[r].op = "execute"
          /\ req[r].pc = "execute_respond"
          /\ req[r].fault = "timeout" )
        => /\ req[r].result = "failure"
           /\ history[req[r].env][req[r].version] = "FAILED"

(***************************************************************************)
(* C9: for a HIGH-risk version, an execute without force and without any   *)
(* approval fails with InsufficientApprovals; with approvals of two        *)
(* different roles an execute whose runner exits with 0 succeeds and the   *)
(* applied count of the environment's status is one more than before.      *)
(***************************************************************************)
C9_ApproveThenExecute ==
    \A r \in Slots :
        ( /\ req[r].op = "execute"
          /\ req[r].pc = "execute_respond"
          /\ ~ req[r].force
          /\ RiskOf(req[r].version) = "HIGH" )
        => /\ DistinctRoleApprovals(req[r].env, req[r].version) = 0
                => req[r].result = "InsufficientApprovals"
           /\ ( /\ DistinctRoleApprovals(req[r].env, req[r].version) >= 2
                /\ req[r].fault = "exit_0" )
                => /\ req[r].result = "success"
                   /\ StatusSummary(req[r].env).applied
                         = req[r].applied_before + 1

(***************************************************************************)
(* C2: every environment holds at most one approval row per (version,      *)
(* role); a committed add_approval leaves the row with the call's name,    *)
(* timestamp and comments in the store, and when a row of that key was     *)
(* already there the number of rows of the version is unchanged.           *)
(***************************************************************************)
RowsOfVersion(rows, version) == {a \in rows : a.migration_version = version}

C2_OneRowPerVersionRole ==
    [][ /\ \A e \in Environments : \A a, b \in approvals'[e] :
              SameKey(a, b) => a = b
        /\ \A r \in Slots :
              ( /\ req[r].pc = "aa_commit"
                /\ Steps(r)
                /\ req'[r].result = "true" )
              => LET row == TxnRow(req[r])
                     old == approvals[req[r].env]
                     new == approvals'[req[r].env]
                 IN  /\ row \in new
                     /\ (\E a \in old : SameKey(a, row))
                           => Cardinality(RowsOfVersion(new, row.migration_version))
                                = Cardinality(RowsOfVersion(old, row.migration_version))
      ]_vars

\* two calls in one environment have both succeeded, the second one with
\* other comments, and the environment holds one row
C2_Witness ==
    \E r1, r2 \in Slots :
        /\ r1 # r2
        /\ req[r1].pc = "done" /\ req[r1].result = "true"
        /\ req[r2].pc = "done" /\ req[r2].result = "true"
        /\ req[r1].env = "staging" /\ req[r2].env = "staging"
        /\ \E a \in approvals["staging"] :
              /\ approvals["staging"] = {a}
              /\ a.approved_at = 2
              /\ a.comments = "again"
        /\ approvals["production"] = {}

(***************************************************************************)
(* C4: a route request of an actor who is not authenticated or lacks the   *)
(* route's permission is answered by the decorator: the request is done    *)
(* with a redirect, no runner command was issued, no notification sent     *)
(* and the approval and history records are unchanged.                     *)
(***************************************************************************)
C4_DeniedBeforeBody ==
    [][\A r \in Slots :
          ( /\ req[r].pc = "gate"
            /\ req[r].op \in {"approve", "execute"}
            /\ ~ hasCapability(req[r].actor, RoutePermission(req[r].op))
            /\ Steps(r) )
          => /\ req'[r].pc = "done"
             /\ req'[r].result \in {"login_redirect", "permission_denied"}
             /\ req'[r].cmd = <<>>
             /\ ~ req'[r].conn
             /\ ~ req'[r].notified
             /\ UNCHANGED <<history, approvals, clock>>]_vars

\* an approve by the admin and an execute by an anonymous actor were denied
C4_Witness ==
    \E r1, r2 \in Slots :
        /\ req[r1].pc = "done" /\ req[r1].op = "approve"
        /\ req[r1].actor = "admin" /\ req[r1].result = "permission_denied"
        /\ req[r2].pc = "done" /\ req[r2].op = "execute"
        /\ req[r2].actor = "anonymous" /\ req[r2].result = "login_redirect"

(***************************************************************************)
(* C7: an execute call that is about to start the runner is never held     *)
(* back, whatever other runner invocations are in progress; two            *)
(* invocations for one (version, environment) run at the same time.        *)
(***************************************************************************)
C7_LaunchNeverBlocked ==
    \A r \in Slots :
        req[r].pc = "execute_migration" => ENABLED ExecuteLaunch(r, TRUE)

\* two runners of the same version and environment, neither has finished
C7_Witness ==
    \E r1, r2 \in Slots :
        /\ r1 # r2
        /\ req[r1].pc = "running" /\ req[r2].pc = "running"
        /\ req[r1].env = req[r2].env
        /\ req[r1].version = req[r2].version

(***************************************************************************)
(* C8: a get_pending_migrations call that reached the store returns one    *)
(* entry for each catalog file <version>.sql whose version is not APPLIED  *)
(* in the environment, no other entry, in ascending lexical file name      *)
(* order.                                                                  *)
(***************************************************************************)
EntriesOf(res, f) == {i \in 1..Len(res) : res[i].filename = f}

PendingIsCatalogMinusApplied(res, env) ==
    /\ \A f \in AllFiles :
          Cardinality(EntriesOf(res, f)) =
             (IF /\ f \in catalog
                 /\ \E v \in SqlVersions \ AppliedVersions(env) :
                       f = v \o SqlSuffix
              THEN 1 ELSE 0)
    /\ \A i \in 1..Len(res) :
          /\ res[i].filename \in AllFiles
          /\ res[i].filename = res[i].version \o SqlSuffix
    /\ \A i, j \in 1..Len(res) :
          i < j => StrLess(res[i].filename, res[j].filename)

C10_ApprovalAllOrNothing ==
    [][\A r \in Slots :
          /\ ( /\ req[r].op = "approve"
               /\ req[r].pc \in {"add_approval", "aa_execute", "aa_commit"}
               /\ req'[r].pc \in {"approve_respond", "done"} )
             => IF req'[r].fault = "none"
                THEN /\ req'[r].result = "true"
                     /\ TxnRow(req[r]) \in approvals'[req[r].env]
                ELSE /\ req'[r].result = "false"
                     /\ approvals' = approvals
          /\ ( /\ req[r].pc = "approve_respond"
               /\ Steps(r) )
             => /\ req'[r].result = req[r].result
                /\ req'[r].notified = (req[r].fault = "none")
                /\ approvals' = approvals]_vars

\* a commit has failed after another call's row was stored; the store holds
\* that row only and the failed call was answered without a notification
C10_Witness ==
    \E r \in Slots :
        /\ req[r].op = "approve" /\ req[r].pc = "done"
        /\ req[r].fault = "commit_error"
        /\ req[r].result = "false"
        /\ ~ req[r].notified
        /\ clock = 2
        /\ Cardinality(approvals[req[r].env]) = 1

(***************************************************************************)
(* MigrationService.get_migration_status.                                  *)
(***************************************************************************)
\* a migration_history row: the ledger keeps the description and risk
\* level of the migration next to its status
HistoryRow(env, version) ==
    [version |-> version,
     status |-> history[env][version],
     description |-> DictGet(get_migration_metadata(version \o SqlSuffix),
                             "description", ""),
     risk_level |-> RiskOf(version)]

\* FROM migration_history mh LEFT JOIN migration_approvals ma
\*   ON mh.version = ma.migration_version WHERE mh.status = 'PENDING_APPROVAL'
\* a history row without approval gets one joined row whose ma columns are
\* NULL (NoVersion, "NULL")
JoinedRows(env) ==
    UNION { LET mh == HistoryRow(env, v)
                mas == {a \in approvals[env] : a.migration_version = v}
            IN  IF mas = {}
                THEN {[mh |-> mh, ma_version |-> NoVersion, ma_role |-> "NULL"]}
                ELSE {[mh |-> mh, ma_version |-> a.migration_version,
                       ma_role |-> a.approver_role] : a \in mas}
          : v \in {w \in SqlVersions : history[env][w] = "PENDING_APPROVAL"} }

\* the group key of a joined row
GroupKey(j) ==
    [migration_version |-> j.ma_version,
     description |-> j.mh.description,
     risk_level |-> j.mh.risk_level]

\* SELECT ma.migration_version, mh.description, mh.risk_level,
\*        COUNT(ma.approver_role) ... GROUP BY ma.migration_version,
\*        mh.description, mh.risk_level
PendingApprovals(env) ==
    { [migration_version |-> k.migration_version,
       description |-> k.description,
       risk_level |-> k.risk_level,
       current_approvals |->
           Cardinality({j \in JoinedRows(env) :
                           GroupKey(j) = k /\ j.ma_role # "NULL"})]
      : k \in {GroupKey(j) : j \in JoinedRows(env)} }

\* the dict get_migration_status returns (recent_migrations left out)
StatusDict(env) ==
    [available |-> TRUE,
     summary |-> StatusSummary(env),
     pending_approvals |-> PendingApprovals(env)]

GetStatusCall(r, env) ==
    /\ Free(r)
    /\ req' = [req EXCEPT ![r] =
            [IdleReq EXCEPT !.op = "status", !.via = "service",
                            !.env = env, !.pc = "get_status"]]
    /\ UNCHANGED <<catalog, history, approvals, clock>>

\* what get_migration_status returns without a connection: an exception
StatusUnavailable_Raises == "raised"

\* what get_migration_status returns without a connection or after a
\* failed query: None
StatusUnavailable == "unavailable"

\* conn = get_db_connection(environment); if not conn: return None
GetStatusConnect(r, ok) ==
    /\ req[r].pc = "get_status"
    /\ req' = [req EXCEPT ![r] =
            IF ok
            THEN [@ EXCEPT !.conn = TRUE, !.pc = "gs_query"]
            ELSE Returned(req[r], StatusUnavailable, "unreachable", "none",
                          FALSE)]
    /\ UNCHANGED <<catalog, history, approvals, clock>>

\* the three SELECTs and return {...}; except: return None; finally: close
GetStatusQuery(r, ok) ==
    /\ req[r].pc = "gs_query"
    /\ req' = [req EXCEPT ![r] =
            IF ok
            THEN [Returned(close(req[r]), "available", "none", "none", FALSE)
                    EXCEPT !.status = StatusDict(ConnectedStore(req[r].env))]
            ELSE Returned(close(req[r]), StatusUnavailable, "query_error",
                          "none", FALSE)]
    /\ UNCHANGED <<catalog, history, approvals, clock>>

\* ---- the four service calls on both environments ----
\* a ledger with two versions waiting for approval
PendingHistory ==
    [v \in SqlVersions |->
        IF v = VersionLow THEN "FAILED" ELSE "PENDING_APPROVAL"]

InitService ==
    /\ catalog = AllFiles
    /\ history = [e \in Environments |->
                    IF e = "staging" THEN MixedHistory ELSE PendingHistory]
    /\ InitStores

\* ---- every service method, with its failures, on one environment ----
NextFailures ==
    \/ \E r \in Slots : GetStatusCall(r, "staging")
    \/ \E r \in Slots, ok \in BOOLEAN : GetStatusConnect(r, ok)
    \/ \E r \in Slots, ok \in BOOLEAN : GetStatusQuery(r, ok)
    \/ \E r \in Slots : GetPendingCall(r, "staging")
    \/ \E r \in Slots, ok \in BOOLEAN : GetPendingConnect(r, ok)
    \/ \E r \in Slots, ok \in BOOLEAN : GetPendingQuery(r, ok)
    \/ \E r \in Slots : GetPendingList(r)
    \/ \E r \in Slots :
          AddApprovalCall(r, VersionHigh, "data_ops_lead", "alice", "ok",
                          "staging")
    \/ \E r \in Slots, ok \in BOOLEAN : AddApprovalConnect(r, ok)
    \/ \E r \in Slots, ok \in BOOLEAN : AddApprovalExecute(r, ok)
    \/ \E r \in Slots, ok \in BOOLEAN : AddApprovalCommit(r, ok)
    \/ \E r \in Slots : ExecuteCall(r, VersionHigh, "staging", FALSE)
    \/ \E r \in Slots, ok \in BOOLEAN : ExecuteLaunch(r, ok)
    \/ \E r \in Slots, outcome \in RunnerOutcomes : ExecuteFinish(r, outcome)

SpecFailures == InitService /\ [][NextFailures]_vars

\* ---- writes and queries on two environments with different ledgers ----
NextIsolation ==
    \/ \E r \in Slots, env \in Environments : GetStatusCall(r, env)
    \/ \E r \in Slots, ok \in BOOLEAN : GetStatusConnect(r, ok)
    \/ \E r \in Slots : GetStatusQuery(r, TRUE)
    \/ \E r \in Slots, env \in Environments : GetPendingCall(r, env)
    \/ \E r \in Slots, ok \in BOOLEAN : GetPendingConnect(r, ok)
    \/ \E r \in Slots : GetPendingQuery(r, TRUE)
    \/ \E r \in Slots : GetPendingList(r)
    \/ \E r \in Slots, env \in Environments :
          AddApprovalCall(r, VersionHigh, "data_ops_lead", "alice", "ok", env)
    \/ \E r \in Slots : AddApprovalConnect(r, TRUE)
    \/ \E r \in Slots : AddApprovalExecute(r, TRUE)
    \/ \E r \in Slots : AddApprovalCommit(r, TRUE)
    \/ \E r \in Slots, env \in Environments :
          ExecuteCall(r, VersionHigh, env, FALSE)
    \/ \E r \in Slots : ExecuteLaunch(r, TRUE)
    \/ \E r \in Slots : ExecuteFinish(r, "exit_0")

SpecIsolation == InitService /\ [][NextIsolation]_vars

\* ---- the status query next to approvals of two roles ----
NextStatus ==
    \/ \E r \in Slots, env \in Environments : GetStatusCall(r, env)
    \/ \E r \in Slots, ok \in BOOLEAN : GetStatusConnect(r, ok)
    \/ \E r \in Slots, ok \in BOOLEAN : GetStatusQuery(r, ok)
    \/ \E r \in Slots, version \in {VersionMedium, VersionHigh},
          role \in {"data_ops_admin", "data_ops_lead"} :
          AddApprovalCall(r, version, role, "alice", "ok", "production")
    \/ \E r \in Slots : AddApprovalConnect(r, TRUE)
    \/ \E r \in Slots : AddApprovalExecute(r, TRUE)
    \/ \E r \in Slots : AddApprovalCommit(r, TRUE)

SpecStatus == InitService /\ [][NextStatus]_vars

(***************************************************************************)
(* C11: no failure of the store or of the runner leaves a service method   *)
(* as an exception: get_migration_status returns the unavailable result    *)
(* (and no status dict) exactly when the connection or a query failed,     *)
(* add_approval returns False after any failure, and execute_migration     *)
(* returns success False after a nonzero exit, a timeout or a launch       *)
(* error.                                                                  *)
(***************************************************************************)
C11_FailuresAreResults ==
    \A r \in Slots :
        req[r].pc = "done"
        => /\ req[r].result # "raised"
           /\ req[r].op = "status"
                => /\ (req[r].fault \in {"unreachable", "query_error"})
                         <=> (req[r].result = "unavailable")
                   /\ (req[r].fault = "none") <=> (req[r].result = "available")
                   /\ req[r].result = "unavailable" => req[r].status = NoStatus
           /\ (req[r].op = "approve" /\ req[r].fault # "none")
                => req[r].result = "false"
           /\ (req[r].op = "execute" /\ req[r].fault # "exit_0")
                => /\ req[r].fault \in {"exit_nonzero", "timeout", "launch_error"}
                   /\ req[r].result = "failure"

\* a status call answered unavailable after a failed query, next to an
\* execute call that returned a failure after a timeout
C11_Witness ==
    \E r1, r2 \in Slots :
        /\ req[r1].pc = "done" /\ req[r1].op = "status"
        /\ req[r1].fault = "query_error" /\ req[r1].result = "unavailable"
        /\ req[r2].pc = "done" /\ req[r2].op = "execute"
        /\ req[r2].fault = "timeout" /\ req[r2].result = "failure"

PendingVersions(env) ==
    {v \in SqlVersions : history[env][v] = "PENDING_APPROVAL"}

C13_OneEntryPerPendingVersion ==
    [][\A r \in Slots :
          (req[r].pc = "gs_query" /\ req'[r].result = "available")
          => LET res == req'[r].status.pending_approvals
                 env == req[r].env
             IN  /\ Cardinality(res) = Cardinality(PendingVersions(env))
                 /\ \A v \in PendingVersions(env) :
                       \E p \in res :
                          /\ p.migration_version = v
                          /\ p.description = HistoryRow(env, v).description
                          /\ p.risk_level = HistoryRow(env, v).risk_level
                          /\ p.current_approvals = ApprovalCount(env, v)]_vars

(***************************************************************************)
(* C14: each execute_migration call starts the runner at most once, with   *)
(* the command `migrate <environment>` followed by `--force` exactly when  *)
(* force is set; the command does not depend on the version.               *)
(***************************************************************************)
\* ---- execute_migration calls of every version, environment and force ----
NextRunner ==
    \/ \E r \in Slots, version \in SqlVersions, env \in Environments,
          force \in BOOLEAN : ExecuteCall(r, version, env, force)
    \/ \E r \in Slots, ok \in BOOLEAN : ExecuteLaunch(r, ok)
    \/ \E r \in Slots, outcome \in RunnerOutcomes : ExecuteFinish(r, outcome)

SpecRunner == InitService /\ [][NextRunner]_vars

C14_OneRunnerCommand ==
    [][\A r \in Slots :
          Steps(r)
          => /\ req'[r].pc = "running"
                  => /\ req[r].pc = "execute_migration"
                     /\ req[r].cmd = <<>>
                     /\ req'[r].cmd =
                           IF req[r].force
                           THEN <<"migrate.sh", "migrate", req[r].env,
                                  "--force">>
                           ELSE <<"migrate.sh", "migrate", req[r].env>>
             /\ req[r].pc = "running"
                  => req'[r].pc = "done" /\ req'[r].op = "execute"
             /\ (req[r].pc = "execute_migration" /\ req'[r].pc # "running")
                  => req'[r].pc = "done" /\ req'[r].fault = "launch_error"]_vars

\* two runners of different versions started with the same forced command
C14_Witness ==
    \E r1, r2 \in Slots :
        /\ req[r1].pc = "running" /\ req[r2].pc = "running"
        /\ req[r1].version # req[r2].version
        /\ req[r1].env = "production" /\ req[r2].env = "production"
        /\ req[r1].force /\ req[r2].force
        /\ req[r1].cmd = req[r2].cmd
        /\ req[r1].cmd = <<"migrate.sh", "migrate", "production", "--force">>

(***************************************************************************)
(* C15: every connection a get_migration_status, get_pending_migrations or *)
(* add_approval call opens is closed before the call returns, on the       *)
(* success path and on every failure path: a connection is open only       *)
(* between the connect and the end of the try block, and no connection is  *)
(* open once the calls have returned.                                      *)
(***************************************************************************)
OpenConnections == Cardinality({r \in Slots : req[r].conn})

C15_ConnectionsClosed ==
    /\ \A r \in Slots :
          req[r].conn
          => req[r].pc \in {"gs_query", "gp_query", "aa_execute", "aa_commit"}
    /\ (\A r \in Slots : Free(r)) => OpenConnections = 0

\* a status call returned after a failed query and an approval after a failed
\* commit, with no connection left open
C15_Witness ==
    \E r1, r2 \in Slots :
        /\ req[r1].pc = "done" /\ req[r1].op = "status"
        /\ req[r1].fault = "query_error"
        /\ req[r2].pc = "done" /\ req[r2].op = "approve"
        /\ req[r2].fault = "commit_error"
        /\ OpenConnections = 0

(***************************************************************************)
(* C16: when the store is unreachable or the applied-versions query fails, *)
(* get_pending_migrations treats the applied set as empty: it still        *)
(* returns a list, with one entry for every .sql file of the catalog,      *)
(* the files of APPLIED versions included, and none for other files.       *)
(***************************************************************************)
C16_FailedQueryListsEverySqlFile ==
    \A r \in Slots :
        ( /\ req[r].op = "pending"
          /\ req[r].pc = "done"
          /\ req[r].fault \in {"unreachable", "query_error"} )
        => /\ req[r].result = "listed"
           /\ \A f \in AllFiles :
                 Cardinality(EntriesOf(req[r].pending, f)) =
                    (IF f \in catalog /\ endswith(f, SqlSuffix) THEN 1 ELSE 0)
           /\ \A i \in 1..Len(req[r].pending) :
                 req[r].pending[i].filename \in AllFiles

\* the store is unreachable and "1.sql", whose version is APPLIED, is listed
C16_Witness ==
    \E r \in Slots :
        /\ req[r].op = "pending" /\ req[r].pc = "done"
        /\ req[r].fault = "unreachable"
        /\ catalog = AllFiles
        /\ VersionLow \in AppliedVersions(req[r].env)
        /\ Len(req[r].pending) = 3
        /\ req[r].pending[1].filename = File1

(***************************************************************************)
(* C17: with the built-in user table the approve route's body is reached   *)
(* only by data_ops_lead (admin, who lacks approve_high_risk, is turned    *)
(* away with "Insufficient permissions"); so every approval record has     *)
(* the role data_ops_lead, every version has at most one distinct approver *)
(* role, and the two approvals a HIGH-risk version asks for are never      *)
(* there.                                                                  *)
(***************************************************************************)
C17_OnlyLeadApproves ==
    /\ \A r \in Slots :
          (req[r].op = "approve" /\ req[r].via = "route")
          => /\ req[r].pc \notin {"gate", "done"}
                   => req[r].actor = "data_ops_lead"
             /\ (req[r].pc = "done" /\ req[r].actor # "data_ops_lead")
                   => req[r].result \in {"permission_denied", "login_redirect"}
             /\ (req[r].pc = "done" /\ req[r].actor = "admin")
                   => req[r].result = "permission_denied"
    /\ \A e \in Environments :
          /\ \A a \in approvals[e] : a.approver_role = "data_ops_lead"
          /\ \A v \in SqlVersions : DistinctRoleApprovals(e, v) <= 1
          /\ \A v \in SqlVersions :
                RiskOf(v) = "HIGH" => ~ ApprovalsSufficient(e, v)

\* the lead's approval of the HIGH-risk version is stored and the admin's
\* approve request has been turned away
C17_Witness ==
    \E r1, r2 \in Slots :
        /\ req[r1].pc = "done" /\ req[r1].op = "approve"
        /\ req[r1].actor = "data_ops_lead" /\ req[r1].result = "true"
        /\ req[r2].pc = "done" /\ req[r2].op = "approve"
        /\ req[r2].actor = "admin" /\ req[r2].result = "permission_denied"
        /\ DistinctRoleApprovals(req[r1].env, VersionHigh) = 1

====
